---- MODULE Spec2Model ----
(***************************************************************************)
(* A model of the helper scripts of flightctl:                             *)
(*   deploy/scripts/yaml_helpers.py   (dot-path extraction, CLI `extract`) *)
(*   deploy/scripts/yaml-to-json.py   (streaming YAML -> JSON converter)   *)
(*   test/scripts/filter_e2e_output.py (JUnit report filter)               *)
(*                                                                         *)
(* Text (a Python str, a channel's content) is a sequence of tokens; the   *)
(* newline is the token NL.  A parsed YAML value is a record               *)
(*   [t, s, items]: t the Python type ("map" dict, "seq" list, "str",     *)
(*   "int", "bool", "null" None), s a scalar's source text, items the      *)
(*   entries [k, v] of a dict in insertion order or of a list (k = "").    *)
(***************************************************************************)
EXTENDS Integers, Sequences, FiniteSets, TLC

VARIABLES
    data,            \* extract_value_as_yaml: the `data` argument / the parsed document
    path,            \* extract_value_as_yaml: the `path` argument (a sequence of characters)
    ret,             \* extract_value_as_yaml: what the call returned (NotCalled before it)
    calls,           \* the calls made so far on one document: [path, before, after, result]
    pc,              \* position of the running script
    source,          \* extract: the file named by args.yaml_file: [kind, doc]
    default_value,   \* extract: args.default_value (None when --default is not given)
    errText,         \* extract: str(e) of the exception the environment raises, if it raises
    handleOpen,      \* extract: whether the file object `f` is open
    exc,             \* extract: the exception in flight ("none" when there is none)
    result,          \* extract: the local `result`
    stdout,          \* primary output channel
    stderr,          \* error channel
    exitCode,        \* process exit status (-1 while running)
    stream,          \* yaml-to-json: the documents on stdin
    idx,             \* yaml-to-json: number of documents taken from the stream
    input,           \* filter_junit_xml: the file at input_path: [kind, root]
    root,            \* filter_junit_xml: tree.getroot(), as mutated so far
    si,              \* filter_junit_xml: number of testsuites processed
    filtered_testcases_count,
    removed_testcase_names,
    output           \* filter_junit_xml: the file at output_path: [written, root]

vars == <<data, path, ret, calls, pc, source, default_value, errText, handleOpen,
          exc, result, stdout, stderr, exitCode, stream, idx, input, root, si,
          filtered_testcases_count, removed_testcase_names, output>>

fnVars     == <<data, path, ret>>
callVars   == <<calls>>
cliVars    == <<source, default_value, errText, handleOpen, exc, result, exitCode>>
chanVars   == <<stdout, stderr>>
convVars   == <<stream, idx>>
filterVars == <<input, root, si, filtered_testcases_count, removed_testcase_names, output>>

(***************************************************************************)
(* Bounds of the model.                                                    *)
(***************************************************************************)
MaxPathLen == 4      \* characters in a dot-path
MaxLen     == 2      \* items in a rendered list
MaxCalls   == 3      \* extractions made on one parsed document
MaxDocs    == 3      \* documents on the converter's input stream
MaxCases   == 3      \* children of one testsuite element

NL == "\n"

(***************************************************************************)
(* Sequence helpers.                                                       *)
(***************************************************************************)
SeqsUpTo(S, n) == UNION {[1..k -> S] : k \in 0..n}

RECURSIVE Flatten(_)
Flatten(ss) == IF ss = <<>> THEN <<>> ELSE Head(ss) \o Flatten(Tail(ss))

Drop(s, n) == SubSeq(s, n + 1, Len(s))

(***************************************************************************)
(* Parsed YAML values.                                                     *)
(***************************************************************************)
Scalar(t, s) == [t |-> t, s |-> s, items |-> <<>>]
Null         == [t |-> "null", s |-> "", items |-> <<>>]
Map(entries) == [t |-> "map", s |-> "", items |-> entries]
List(vals)   == [t |-> "seq", s |-> "",
                 items |-> [i \in 1..Len(vals) |-> [k |-> "", v |-> vals[i]]]]
Entry(k, v)  == [k |-> k, v |-> v]

IsDict(v) == v.t = "map"
IsList(v) == v.t = "seq"
IsNone(v) == v.t = "null"

\* `part in current` for a dict
HasKey(d, part) == \E i \in 1..Len(d.items) : d.items[i].k = part
\* `current[part]` for a dict that has the key
GetKey(d, part) == d.items[CHOOSE i \in 1..Len(d.items) : d.items[i].k = part].v

(***************************************************************************)
(* extract_value_as_yaml                                                   *)
(***************************************************************************)
\* str.split('.'): one part per dot plus one; parts may be empty
RECURSIVE SplitFrom(_, _, _)
SplitFrom(p, i, parts) ==
    IF i > Len(p) THEN parts
    ELSE IF p[i] = "."
         THEN SplitFrom(p, i + 1, Append(parts, ""))
         ELSE SplitFrom(p, i + 1, [parts EXCEPT ![Len(parts)] = @ \o p[i]])

Split(p) == SplitFrom(p, 1, <<"">>)

\* the return value None, and a returned string
None      == [none |-> TRUE, text |-> <<>>]
Text(txt) == [none |-> FALSE, text |-> txt]
NotCalled == [none |-> FALSE, text |-> <<"<not called>">>]

\* whether an empty part is skipped (`if part == '': continue`)
SkipsPartNever(part) == FALSE
SkipsPart(part) == part = ""

\* the loop over path_parts; yields [found, v]
\* (WalkPartial: the loop stopping with the value reached so far)
RECURSIVE WalkPartial(_, _, _)
WalkPartial(parts, i, current) ==
    IF i > Len(parts) THEN [found |-> TRUE, v |-> current]
    ELSE IF SkipsPart(parts[i]) THEN WalkPartial(parts, i + 1, current)
    ELSE IF IsDict(current) /\ HasKey(current, parts[i])
         THEN WalkPartial(parts, i + 1, GetKey(current, parts[i]))
         ELSE [found |-> TRUE, v |-> current]
RECURSIVE Walk(_, _, _)
Walk(parts, i, current) ==
    IF i > Len(parts) THEN [found |-> TRUE, v |-> current]
    ELSE IF SkipsPart(parts[i]) THEN Walk(parts, i + 1, current)
    ELSE IF IsDict(current)
         THEN IF HasKey(current, parts[i])
              THEN Walk(parts, i + 1, GetKey(current, parts[i]))
              ELSE [found |-> FALSE, v |-> Null]
         ELSE [found |-> FALSE, v |-> Null]

\* str(current) of a scalar
PyStr(v) ==
    IF v.t = "bool" THEN <<IF v.s = "true" THEN "True" ELSE "False">>
    ELSE IF v.s = "" THEN <<>> ELSE <<v.s>>

\* the text PyYAML writes for a scalar inside a block
YamlScalar(v) == IF IsNone(v) THEN "null" ELSE v.s

\* sorted(mapping.items()) of the representer: keys compared as Python strings
KeyOrder == <<"", "a", "b">>
KeyRank(k) == CHOOSE i \in 1..Len(KeyOrder) : KeyOrder[i] = k

RECURSIVE SortItems(_)
SortItems(items) ==
    IF items = <<>> THEN <<>>
    ELSE LET m == CHOOSE i \in 1..Len(items) :
                    \A j \in 1..Len(items) : KeyRank(items[i].k) <= KeyRank(items[j].k)
         IN  <<items[m]>> \o
             SortItems([j \in 1..(Len(items) - 1) |->
                           IF j < m THEN items[j] ELSE items[j + 1]])

\* the order in which yaml.dump writes a mapping's entries (sort_keys defaults to True)
DumpOrderAsGiven(items) == items
DumpOrder(items) == SortItems(items)

Indent(n) == [i \in 1..n |-> "  "]

\* block-style emission of a non-empty mapping / sequence at indentation n
RECURSIVE BlockMap(_, _), BlockSeq(_, _)
BlockMap(m, n) ==
    LET es == DumpOrder(m.items)
        After(v) ==
            IF ~IsDict(v) /\ ~IsList(v) THEN <<" ", YamlScalar(v), NL>>
            ELSE IF v.items = <<>> THEN <<" ", IF IsDict(v) THEN "{}" ELSE "[]", NL>>
            ELSE IF IsDict(v) THEN <<NL>> \o BlockMap(v, n + 1)
            ELSE <<NL>> \o BlockSeq(v, n)
    IN  Flatten([i \in 1..Len(es) |-> Indent(n) \o <<es[i].k, ":">> \o After(es[i].v)])
BlockSeq(s, n) ==
    LET After(v) ==
            IF ~IsDict(v) /\ ~IsList(v) THEN <<" ", YamlScalar(v), NL>>
            ELSE IF v.items = <<>> THEN <<" ", IF IsDict(v) THEN "{}" ELSE "[]", NL>>
            ELSE IF IsDict(v) THEN <<" ">> \o Drop(BlockMap(v, n + 1), n + 1)
            ELSE <<" ">> \o Drop(BlockSeq(v, n + 1), n + 1)
    IN  Flatten([i \in 1..Len(s.items) |-> Indent(n) \o <<"-">> \o After(s.items[i].v)])

\* yaml.dump(current, default_flow_style=False, ...)
yaml_dump(v) ==
    IF v.items = <<>> THEN <<IF IsDict(v) THEN "{}" ELSE "[]", NL>>
    ELSE IF IsDict(v) THEN BlockMap(v, 0) ELSE BlockSeq(v, 0)

\* str.rstrip('\n')
RECURSIVE rstrip_nl(_)
rstrip_nl(txt) ==
    IF txt # <<>> /\ txt[Len(txt)] = NL THEN rstrip_nl(SubSeq(txt, 1, Len(txt) - 1))
    ELSE txt

\* lines 30-39: what is returned for the value the loop ended on
RenderNoNullCheck(current) ==
    IF IsDict(current) \/ IsList(current) THEN Text(rstrip_nl(yaml_dump(current)))
    ELSE Text(IF IsNone(current) THEN <<"None">> ELSE PyStr(current))
Render(current) ==
    IF IsNone(current) THEN None
    ELSE IF IsDict(current) \/ IsList(current) THEN Text(rstrip_nl(yaml_dump(current)))
    ELSE Text(PyStr(current))

extract_value_as_yaml(p, d) ==
    LET w == Walk(Split(p), 1, d)
    IN  IF w.found THEN Render(w.v) ELSE None

\* what the call does to the caller's document: no statement of the function
\* assigns through `data` or `current`, it only rebinds the local `current`
DataAfterPop(p, d) ==
    LET parts == SelectSeq(Split(p), LAMBDA x : x # "")
    IN  IF parts # <<>> /\ IsDict(d) /\ HasKey(d, parts[1])
        THEN Map(SelectSeq(d.items, LAMBDA e : e.k # parts[1]))
        ELSE d
DataAfter(p, d) == d

(***************************************************************************)
(* Inputs of extract_value_as_yaml.                                        *)
(***************************************************************************)
I1 == Scalar("int", "1")
I2 == Scalar("int", "2")
Sx == Scalar("str", "x")
Bt == Scalar("bool", "true")
EmptyMap == Map(<<>>)
EmptySeq == List(<<>>)

PathChars == {"a", "b", "."}
Paths     == SeqsUpTo(PathChars, MaxPathLen)

\* dicts with at most two entries, keys unique, in either insertion order
MapsOver(K, V1, V2) ==
    {EmptyMap}
    \cup {Map(<<Entry(k, v)>>) : k \in K, v \in V1}
    \cup {Map(<<Entry(kv[1], kv[3]), Entry(kv[2], kv[4])>>) :
            kv \in {x \in K \X K \X (V1 \cup V2) \X (V1 \cup V2) :
                      x[1] # x[2] /\ (x[3] \in V2 \/ x[4] \in V2)}}

\* documents for traversal: nested dicts with lists, scalars and nulls inside,
\* and dicts that have the empty string as a key
TravLeaves == {I1, Sx, Null, List(<<I1, I2>>)}
TravInner  == TravLeaves \cup MapsOver({"a", "b"}, TravLeaves, TravLeaves)
TravDocs   ==
    {I1, Null, EmptySeq, List(<<I1, I2>>)}
    \cup MapsOver({"a", "b"}, TravInner, {I1, Null})
    \cup {Map(<<Entry("", v)>>) : v \in TravInner}
    \cup {Map(<<Entry("", I1), Entry("a", v)>>) : v \in TravInner}

\* documents for rendering: composites nested two deep, keys in either order
RenderLeaves == {I1, I2, Bt, Null, EmptyMap, EmptySeq}
FlatLists    == {List(s) : s \in SeqsUpTo({I1, I2}, MaxLen)}
FlatMaps     == MapsOver({"a", "b"}, RenderLeaves, RenderLeaves)
RenderInner  == RenderLeaves \cup FlatLists \cup FlatMaps
RenderItems  == {I1, Null, EmptyMap, List(<<I1, I2>>), List(<<I2>>),
                 Map(<<Entry("b", I1), Entry("a", List(<<I2, I1>>))>>)}
RenderDocs   ==
    MapsOver({"a", "b"}, RenderInner, RenderInner)
    \cup {List(s) : s \in SeqsUpTo(RenderItems, MaxLen)}
RenderPaths  == {<<>>, <<"a">>, <<"b">>}

(***************************************************************************)
(* One call of extract_value_as_yaml(path, data).                          *)
(***************************************************************************)
Idle ==
    /\ pc = "idle" /\ calls = <<>>
    /\ source = Null /\ default_value = "" /\ errText = <<>> /\ handleOpen = FALSE
    /\ exc = "none" /\ result = NotCalled /\ stdout = <<>> /\ stderr = <<>>
    /\ exitCode = -1 /\ stream = <<>> /\ idx = 0
    /\ input = Null /\ root = Null /\ si = 0 /\ filtered_testcases_count = 0
    /\ removed_testcase_names = <<>> /\ output = Null

InitFn ==
    /\ Idle
    /\ \/ data \in TravDocs /\ path \in Paths
       \/ data \in RenderDocs /\ path \in RenderPaths
    /\ ret = NotCalled

Call ==
    /\ ret = NotCalled
    /\ ret' = extract_value_as_yaml(path, data)
    /\ data' = DataAfter(path, data)
    /\ UNCHANGED <<path, calls, pc, cliVars, chanVars, convVars, filterVars>>

NextFn == Call

SpecFn == InitFn /\ [][NextFn]_vars

(***************************************************************************)
(* Properties of extract_value_as_yaml (checked under SpecFn).             *)
(***************************************************************************)
\* the non-empty segments of a dot-path: its maximal runs of non-dot characters
RECURSIVE RunLen(_), JoinChars(_), Segs(_)
RunLen(p) == IF p = <<>> \/ Head(p) = "." THEN 0 ELSE 1 + RunLen(Tail(p))
JoinChars(cs) == IF cs = <<>> THEN "" ELSE Head(cs) \o JoinChars(Tail(cs))
Segs(p) ==
    IF p = <<>> THEN <<>>
    ELSE IF Head(p) = "." THEN Segs(Tail(p))
    ELSE <<JoinChars(SubSeq(p, 1, RunLen(p)))>> \o Segs(Drop(p, RunLen(p)))

\* the path with its empty segments removed: the non-empty segments joined by dots
RECURSIVE DotJoin(_)
DotJoin(p) ==
    IF p = <<>> THEN <<>>
    ELSE IF Head(p) = "." THEN DotJoin(Tail(p))
    ELSE SubSeq(p, 1, RunLen(p)) \o
         (IF Segs(Drop(p, RunLen(p))) = <<>> THEN <<>>
          ELSE <<".">> \o DotJoin(Drop(p, RunLen(p))))

\* descending from v along segments, into mappings only
RECURSIVE Descend(_, _)
Descend(v, segs) ==
    IF segs = <<>> THEN [found |-> TRUE, v |-> v]
    ELSE IF IsDict(v) /\ HasKey(v, Head(segs))
         THEN Descend(GetKey(v, Head(segs)), Tail(segs))
         ELSE [found |-> FALSE, v |-> Null]

IsComposite(v) == IsDict(v) \/ IsList(v)
Rendering(v) == IF IsComposite(v) THEN rstrip_nl(yaml_dump(v)) ELSE PyStr(v)
Called == ret # NotCalled

\* C1: the call descends along the non-empty segments from the document root,
\* into mappings only; a missing key, a list or a scalar on the way gives None;
\* when all segments are consumed and the value is not null the result is the
\* rendering of exactly that value.
C1_Traversal ==
    Called =>
        LET d == Descend(data, Segs(path))
        IN  /\ ~d.found => ret = None
            /\ d.found /\ ~IsNone(d.v) => ret = Text(Rendering(d.v))
            /\ Segs(path) = <<>> /\ ~IsNone(data) => ret = Text(Rendering(data))

\* C1 witness: segment "a" reaches a list, segment "b" is then asked of the list
C1_Witness ==
    /\ Called /\ Segs(path) = <<"a", "b">>
    /\ IsDict(data) /\ HasKey(data, "a") /\ IsList(GetKey(data, "a"))
    /\ ret = None

\* C7: a path and the same path with its empty segments removed give the same
\* result, on every document (also one that has the empty string as a key).
C7_EmptySegments ==
    Called => ret = extract_value_as_yaml(DotJoin(path), data)

\* C7 witness: a path with a doubled dot that resolves to a value
C7_Witness ==
    /\ Called /\ path = <<"a", ".", ".", "b">> /\ ~ret.none
    /\ DotJoin(path) = <<"a", ".", "b">>

\* the keys / the scalars of a value in the order a depth-first walk meets them,
\* each mapping's entries taken in document order or in sorted key order
RECURSIVE KeysIn(_, _), ScalarsIn(_, _), CountIn(_, _)
KeysIn(v, sorted) ==
    LET es == IF IsDict(v) /\ sorted THEN SortItems(v.items) ELSE v.items
    IN  Flatten([i \in 1..Len(es) |->
                   (IF IsDict(v) THEN <<es[i].k>> ELSE <<>>) \o KeysIn(es[i].v, sorted)])
ScalarsIn(v, sorted) ==
    LET es == IF IsDict(v) /\ sorted THEN SortItems(v.items) ELSE v.items
    IN  IF IsComposite(v)
        THEN Flatten([i \in 1..Len(es) |-> ScalarsIn(es[i].v, sorted)])
        ELSE <<YamlScalar(v)>>
\* how many empty collections of type t the value holds
CountIn(v, t) ==
    IF ~IsComposite(v) THEN 0
    ELSE IF v.items = <<>> THEN (IF v.t = t THEN 1 ELSE 0)
    ELSE Len(Flatten([i \in 1..Len(v.items) |->
                        [j \in 1..CountIn(v.items[i].v, t) |-> t]]))

\* the same, read back from the rendered text
KeysOfText(txt) ==
    LET I == {i \in 1..(Len(txt) - 1) : txt[i + 1] = ":"}
        f[i \in 0..Len(txt)] ==
            IF i = 0 THEN <<>> ELSE IF i \in I THEN Append(f[i - 1], txt[i]) ELSE f[i - 1]
    IN  f[Len(txt)]
ScalarsOfText(txt) ==
    LET I == {i \in 1..Len(txt) :
                /\ i = Len(txt) \/ txt[i + 1] = NL
                /\ txt[i] \notin {":", "{}", "[]", NL}}
        f[i \in 0..Len(txt)] ==
            IF i = 0 THEN <<>> ELSE IF i \in I THEN Append(f[i - 1], txt[i]) ELSE f[i - 1]
    IN  f[Len(txt)]
Occurrences(txt, tok) == Cardinality({i \in 1..Len(txt) : txt[i] = tok})

Target == Walk(Split(path), 1, data)
RenderedComposite == Called /\ Target.found /\ IsComposite(Target.v)

\* whether the value holds no empty mapping and no empty sequence
NoEmptyCollections(v) == CountIn(v, "map") = 0 /\ CountIn(v, "seq") = 0

CallPaths == {<<>>, <<"a">>, <<"b">>, <<"a", ".", "b">>}

InitCalls ==
    /\ Idle
    /\ data \in TravDocs /\ path = <<>> /\ ret = NotCalled

ExtractAgain ==
    /\ Len(calls) < MaxCalls
    /\ \E p \in CallPaths :
        /\ path' = p
        /\ ret' = extract_value_as_yaml(p, data)
        /\ data' = DataAfter(p, data)
        /\ calls' = Append(calls, [path |-> p, before |-> data,
                                   after |-> data', result |-> ret'])
    /\ UNCHANGED <<pc, cliVars, chanVars, convVars, filterVars>>

NextCalls == ExtractAgain

SpecCalls == InitCalls /\ [][NextCalls]_vars

py_print(chan, txt) == chan \o txt \o <<NL>>

\* _handle_error(error_msg, default_value): the channels and the exit status
handle_error_exit0(msg, dv, out, err) ==
    IF ~dv.none
    THEN [out |-> py_print(out, dv.text), err |-> err, code |-> 0]
    ELSE [out |-> out, err |-> py_print(err, <<"yaml_helpers: ">> \o msg), code |-> 0]
handle_error_always(msg, dv, out, err) ==
    [out |-> out, err |-> py_print(err, <<"yaml_helpers: ">> \o msg), code |-> 1]
handle_error(msg, dv, out, err) ==
    IF ~dv.none
    THEN [out |-> py_print(out, dv.text), err |-> err, code |-> 0]
    ELSE [out |-> out, err |-> py_print(err, <<"yaml_helpers: ">> \o msg), code |-> 1]

\* the state of the file object when the `with` block is left
LeftOpenAfterWith(h) == h
HandleAfterWith(h) == FALSE

\* the message each except clause builds
ErrorMessage(e, txt) ==
    IF e = "FileNotFoundError" THEN <<"File not found: ", "<yaml_file>">>
    ELSE IF e = "YAMLError" THEN <<"YAML error: ">> \o txt
    ELSE <<"Unexpected error: ">> \o txt

\* the files the command may be pointed at
CliLeaves == {I1, Sx, Null, List(<<I1, I2>>),
              Map(<<Entry("b", I2), Entry("a", Null)>>)}
CliDocs   == {Null, I1, EmptySeq} \cup MapsOver({"a", "b"}, CliLeaves, {Null})
Sources   ==
    {[kind |-> k, doc |-> Null] : k \in {"missing", "denied", "malformed", "undecodable"}}
    \cup {[kind |-> "ok", doc |-> d] : d \in CliDocs}
CliPaths  == {<<>>, <<"a">>, <<"b">>, <<"a", ".", "b">>, <<".", "a", ".", "a">>}
Defaults  == {None, Text(<<"X">>), Text(<<>>)}
\* str(e): one line; for a yaml.YAMLError one line or several (the text of
\* PyYAML's marked errors is the problem and its position, joined by newlines)
OneLine   == <<"problem">>
ErrTexts  == {OneLine, <<"problem", NL, "  in <yaml_file>, line 1">>}

InitCli ==
    /\ calls = <<>> /\ ret = NotCalled
    /\ stream = <<>> /\ idx = 0
    /\ input = Null /\ root = Null /\ si = 0 /\ filtered_testcases_count = 0
    /\ removed_testcase_names = <<>> /\ output = Null
    /\ pc = "start"
    /\ source \in Sources
    /\ path \in CliPaths
    /\ default_value \in Defaults
    /\ errText \in IF source.kind = "malformed" THEN ErrTexts ELSE {OneLine}
    /\ data = Null /\ handleOpen = FALSE /\ exc = "none" /\ result = NotCalled
    /\ stdout = <<>> /\ stderr = <<>> /\ exitCode = -1

cliFrame == <<ret, calls, source, path, default_value, errText, convVars, filterVars>>

\* open(file_path, 'r')
Open ==
    /\ pc = "start"
    /\ \/ /\ source.kind = "missing"
          /\ exc' = "FileNotFoundError" /\ pc' = "except"
          /\ UNCHANGED handleOpen
       \/ /\ source.kind = "denied"
          /\ exc' = "Exception" /\ pc' = "except"
          /\ UNCHANGED handleOpen
       \/ /\ source.kind \notin {"missing", "denied"}
          /\ handleOpen' = TRUE /\ pc' = "load"
          /\ UNCHANGED exc
    /\ UNCHANGED <<data, result, stdout, stderr, exitCode, cliFrame>>

\* data = yaml.safe_load(f)
SafeLoad ==
    /\ pc = "load"
    /\ \/ /\ source.kind = "malformed"
          /\ exc' = "YAMLError" /\ UNCHANGED data
       \/ /\ source.kind = "undecodable"
          /\ exc' = "Exception" /\ UNCHANGED data
       \/ /\ source.kind = "ok"
          /\ data' = source.doc /\ UNCHANGED exc
    /\ pc' = "with_exit"
    /\ UNCHANGED <<handleOpen, result, stdout, stderr, exitCode, cliFrame>>

\* leaving the `with` block, normally or with the exception in flight
WithExit ==
    /\ pc = "with_exit"
    /\ handleOpen' = HandleAfterWith(handleOpen)
    /\ pc' = IF exc = "none" THEN "check" ELSE "except"
    /\ UNCHANGED <<data, exc, result, stdout, stderr, exitCode, cliFrame>>

\* if data is None: ... sys.exit(0)   (SystemExit passes `except Exception`)
CheckData ==
    /\ pc = "check"
    /\ IF IsNone(data)
       THEN /\ stdout' = IF ~default_value.none
                         THEN py_print(stdout, default_value.text) ELSE stdout
            /\ exitCode' = 0 /\ pc' = "exited"
       ELSE /\ pc' = "extract"
            /\ UNCHANGED <<stdout, exitCode>>
    /\ UNCHANGED <<data, handleOpen, exc, result, stderr, cliFrame>>

\* result = extract_value_as_yaml(path, data); yaml.dump may raise (a mapping
\* whose keys do not compare, such as an int and a str, cannot be sorted)
ExtractValue ==
    /\ pc = "extract"
    /\ \/ /\ result' = extract_value_as_yaml(path, data)
          /\ pc' = "emit" /\ UNCHANGED exc
       \/ /\ Target.found /\ IsComposite(Target.v)
          /\ exc' = "Exception" /\ pc' = "except" /\ UNCHANGED result
    /\ UNCHANGED <<data, handleOpen, stdout, stderr, exitCode, cliFrame>>

\* if result is None: ... else: print(result); then the command returns
Emit ==
    /\ pc = "emit"
    /\ stdout' = IF result.none
                 THEN IF ~default_value.none
                      THEN py_print(stdout, default_value.text) ELSE stdout
                 ELSE py_print(stdout, result.text)
    /\ exitCode' = 0 /\ pc' = "exited"
    /\ UNCHANGED <<data, handleOpen, exc, result, stderr, cliFrame>>

\* the except clauses, each calling _handle_error
Except ==
    /\ pc = "except"
    /\ LET h == handle_error(ErrorMessage(exc, errText), default_value, stdout, stderr)
       IN  stdout' = h.out /\ stderr' = h.err /\ exitCode' = h.code
    /\ pc' = "exited"
    /\ UNCHANGED <<data, handleOpen, exc, result, cliFrame>>

NextCli == Open \/ SafeLoad \/ WithExit \/ CheckData \/ ExtractValue \/ Emit \/ Except

SpecCli == InitCli /\ [][NextCli]_vars

(***************************************************************************)
(* Properties of the `extract` subcommand (checked under SpecCli).         *)
(***************************************************************************)
Exited     == pc = "exited"
HasDefault == ~default_value.none
Resolved   == Descend(source.doc, Segs(path))

\* the failure classes, read off the input of the run
SourceUnreadable == source.kind \in {"missing", "denied"}
SourceMalformed  == source.kind = "malformed"
UnexpectedError  == source.kind = "undecodable" \/ (source.kind = "ok" /\ exc # "none")
EmptyDocument    == source.kind = "ok" /\ IsNone(source.doc)
PathNotFound     == source.kind = "ok" /\ exc = "none" /\ ~IsNone(source.doc)
                    /\ ~Resolved.found
ResolvedToNull   == source.kind = "ok" /\ exc = "none" /\ ~IsNone(source.doc)
                    /\ Resolved.found /\ IsNone(Resolved.v)
ErrorClass       == SourceUnreadable \/ SourceMalformed \/ UnexpectedError
ClassLabel ==
    IF source.kind = "missing" THEN "File not found: "
    ELSE IF source.kind = "malformed" THEN "YAML error: "
    ELSE "Unexpected error: "

\* C2: with --default X every failure class ends with exit code 0, exactly X on
\* the primary output and nothing on the error channel.
C2_DefaultUniform ==
    Exited /\ HasDefault
      /\ (ErrorClass \/ EmptyDocument \/ PathNotFound \/ ResolvedToNull) =>
        /\ exitCode = 0
        /\ stdout = default_value.text \o <<NL>>
        /\ stderr = <<>>

\* C2 witness: a malformed source with --default X
C2_Witness ==
    /\ Exited /\ SourceMalformed /\ default_value = Text(<<"X">>)
    /\ stdout = <<"X", NL>> /\ exitCode = 0

C4_NotFoundAlike ==
    Exited /\ (EmptyDocument \/ PathNotFound \/ ResolvedToNull) =>
        /\ exitCode = 0
        /\ stderr = <<>>
        /\ stdout = IF HasDefault THEN default_value.text \o <<NL>> ELSE <<>>

\* C4 witness: a key present with a null value, no default
C4_Witness ==
    /\ Exited /\ ~HasDefault /\ ResolvedToNull /\ Segs(path) # <<>>
    /\ stdout = <<>> /\ stderr = <<>> /\ exitCode = 0

\* C8: the file is open only while it is parsed: nothing is resolved or written
\* while it is open, and it is closed whenever the command has ended.
C8_HandleScope ==
    /\ handleOpen => /\ pc \in {"load", "with_exit"}
                     /\ result = NotCalled /\ stdout = <<>> /\ stderr = <<>>
    /\ Exited => ~handleOpen

\* C8 witness: the parse of an opened file failed and the command ended with 1
C8_Witness ==
    /\ Exited /\ SourceMalformed /\ exitCode = 1 /\ ~handleOpen

(***************************************************************************)
(* yaml-to-json.py: the loop over yaml.safe_load_all(sys.stdin), inside    *)
(* one try statement.                                                      *)
(***************************************************************************)
\* a YAML timestamp loads as a datetime.date, which json.dumps cannot encode;
\* Unparsable stands for the text of a document that is not valid YAML
Date       == Scalar("date", "2020-01-01")
Unparsable == Scalar("unparsable", "")
ConvDocs   == {I1, Map(<<Entry("b", Sx), Entry("a", List(<<I1, Null>>))>>),
               Date, Unparsable}
Streams    == SeqsUpTo(ConvDocs, MaxDocs)

RECURSIVE JoinWith(_, _), HoldsDate(_), json_dumps(_)
JoinWith(sep, ss) ==
    IF ss = <<>> THEN <<>>
    ELSE IF Len(ss) = 1 THEN ss[1]
    ELSE ss[1] \o <<sep>> \o JoinWith(sep, Tail(ss))
HoldsDate(v) ==
    v.t = "date" \/ \E i \in 1..Len(v.items) : HoldsDate(v.items[i].v)
\* json.dumps(d) with the default separators, for a value it can encode
json_dumps(v) ==
    IF IsDict(v)
    THEN <<"{">> \o JoinWith(", ", [i \in 1..Len(v.items) |->
                <<"\"" \o v.items[i].k \o "\"", ": ">> \o json_dumps(v.items[i].v)])
         \o <<"}">>
    ELSE IF IsList(v)
    THEN <<"[">> \o JoinWith(", ", [i \in 1..Len(v.items) |-> json_dumps(v.items[i].v)])
         \o <<"]">>
    ELSE IF v.t = "str" THEN <<"\"" \o v.s \o "\"">>
    ELSE IF IsNone(v) THEN <<"null">>
    ELSE <<v.s>>

\* where an exception raised while document i is loaded or converted leaves
\* the script: the try statement encloses the whole for loop
SkipAndResume(i) == [pc |-> "next", idx |-> i]
AfterException(i) == [pc |-> "done", idx |-> i]

InitConv ==
    /\ data = Null /\ path = <<>> /\ ret = NotCalled /\ calls = <<>>
    /\ source = Null /\ default_value = "" /\ errText = <<>> /\ handleOpen = FALSE
    /\ exc = "none" /\ result = NotCalled /\ exitCode = -1
    /\ input = Null /\ root = Null /\ si = 0 /\ filtered_testcases_count = 0
    /\ removed_testcase_names = <<>> /\ output = Null
    /\ pc = "next"
    /\ stream \in Streams /\ idx = 0
    /\ stdout = <<>> /\ stderr = <<>>

convFrame == <<fnVars, callVars, cliVars, filterVars, stream>>

\* the generator's next(): the next document, the end of the stream, or a
\* YAMLError for a document that does not parse
NextDocument ==
    /\ pc = "next"
    /\ \/ /\ idx = Len(stream)
          /\ pc' = "done" /\ UNCHANGED <<idx, stderr>>
       \/ /\ idx < Len(stream) /\ stream[idx + 1] = Unparsable
          /\ stderr' = py_print(stderr, <<"yaml-to-json: YAML error: ", "problem">>)
          /\ pc' = AfterException(idx + 1).pc /\ idx' = AfterException(idx + 1).idx
       \/ /\ idx < Len(stream) /\ stream[idx + 1] # Unparsable
          /\ idx' = idx + 1 /\ pc' = "dump" /\ UNCHANGED stderr
    /\ UNCHANGED <<stdout, convFrame>>

\* print(json.dumps(d)); json.dumps raises TypeError for what it cannot encode
DumpDocument ==
    /\ pc = "dump"
    /\ \/ /\ HoldsDate(stream[idx])
          /\ stderr' = py_print(stderr, <<"yaml-to-json: JSON conversion error: ",
                                          "Object of type date is not JSON serializable">>)
          /\ pc' = AfterException(idx).pc /\ idx' = AfterException(idx).idx
          /\ UNCHANGED stdout
       \/ /\ ~HoldsDate(stream[idx])
          /\ stdout' = py_print(stdout, json_dumps(stream[idx]))
          /\ pc' = "next" /\ UNCHANGED <<idx, stderr>>
    /\ UNCHANGED convFrame

NextConv == NextDocument \/ DumpDocument

SpecConv == InitConv /\ [][NextConv]_vars

\* whether the conversion of a document fails
Fails(d) == d = Unparsable \/ HoldsDate(d)
JsonLine(d) == json_dumps(d) \o <<NL>>
FirstFailure ==
    IF \E i \in 1..Len(stream) : Fails(stream[i])
    THEN CHOOSE i \in 1..Len(stream) :
            Fails(stream[i]) /\ \A j \in 1..(i - 1) : ~Fails(stream[j])
    ELSE Len(stream) + 1

\* C6, as claimed: when the conversion of a document fails the error is
\* reported and every later document is still converted and written, so at the
\* end every document that converts is on the output stream (stated for the
\* streams whose documents all parse, where a failure is one of json.dumps).
C6_ContinuesPastError ==
    pc = "done" /\ (\A i \in 1..Len(stream) : stream[i] # Unparsable) =>
        /\ stdout = Flatten([i \in 1..Len(stream) |->
                               IF Fails(stream[i]) THEN <<>> ELSE JsonLine(stream[i])])
        /\ FirstFailure <= Len(stream) => stderr # <<>>

\* C6, amended: the first failing document ends the stream: the documents
\* before it are on the output stream, its error is the one diagnostic on the
\* error channel, and no later document is converted or written.
C6_StopsAtFirstError ==
    pc = "done" =>
        /\ stdout = Flatten([i \in 1..(FirstFailure - 1) |-> JsonLine(stream[i])])
        /\ Occurrences(stderr, NL) = IF FirstFailure <= Len(stream) THEN 1 ELSE 0
        /\ FirstFailure <= Len(stream) =>
              stderr[1] = IF stream[FirstFailure] = Unparsable
                          THEN "yaml-to-json: YAML error: "
                          ELSE "yaml-to-json: JSON conversion error: "

\* C6 witness: a document that converts, one that fails, one that would convert
C6_Witness ==
    /\ pc = "done" /\ Len(stream) = 3
    /\ ~Fails(stream[1]) /\ Fails(stream[2]) /\ ~Fails(stream[3])
    /\ stdout = JsonLine(stream[1]) /\ stderr # <<>>

(***************************************************************************)
(* filter_e2e_output.py: filter_junit_xml(input_path, output_path,         *)
(* FILTER_NAME_SUBSTRINGS).  A name is a sequence of words; an element of  *)
(* the report root is [tag, tests, kids], a child of it [tag, name].       *)
(***************************************************************************)
FILTER_NAME_SUBSTRINGS ==
    << <<"[BeforeSuite]">>, <<"[AfterSuite]">>, <<"[DeferCleanup (Suite)]">>,
       <<"[DeferCleanup (Container)]">>, <<"Extension">>,
       <<"Label", " ", "Selectors">>, <<"Basic", " ", "Operations">> >>

\* `keyword in name`
IsExactly(name, keyword) == name = keyword
IsSubstring(name, keyword) ==
    \E i \in 0..(Len(name) - Len(keyword)) : SubSeq(name, i + 1, i + Len(keyword)) = keyword

\* any(keyword in name for keyword in name_substrings)
NameMatches(name, name_substrings) ==
    \E k \in 1..Len(name_substrings) : IsSubstring(name, name_substrings[k])

\* the 'tests' attribute: absent, an integer, or text that int() rejects
Absent   == [kind |-> "absent", n |-> 0]
Num(n)   == [kind |-> "int", n |-> n]
NotANumber == [kind |-> "text", n |-> 0]
\* int(testsuite.get('tests', '0')) where it does not raise
TestsOf(suite) == suite.tests.n

Case(name) == [tag |-> "testcase", name |-> name]
CaseNames  == {<<"[BeforeSuite]">>, <<"agent", " ", "Label", " ", "Selectors">>,
               <<"Selectors", " ", "Label">>}
SuiteKids  == {Case(n) : n \in CaseNames} \cup {[tag |-> "properties", name |-> <<"Extension">>]}
Suites     == {[tag |-> "testsuite", tests |-> t, kids |-> ks] :
                 t \in {Absent, Num(5), NotANumber}, ks \in SeqsUpTo(SuiteKids, MaxCases)}
\* the report root holds up to two elements, testsuites or a stray testcase;
\* of two, one has at most one child
Stray       == [tag |-> "testcase", tests |-> Absent, kids |-> <<>>]
SmallSuites == {s \in Suites : Len(s.kids) <= 1}
Shape(s, t, n) ==
    IF n = 0 THEN <<>> ELSE IF n = 1 THEN <<s>> ELSE IF n = 2 THEN <<s, t>> ELSE <<t, s>>
NotWritten == [written |-> FALSE, root |-> <<>>]
\* root.findall('testsuite'): the positions of the direct children with that tag
SuitePositions(r) == {i \in 1..Len(r) : r[i].tag = "testsuite"}
\* the position in the root of the n-th testsuite
NthSuite(r, n) ==
    CHOOSE i \in SuitePositions(r) : Cardinality({j \in SuitePositions(r) : j <= i}) = n

\* testcases_to_remove: the direct testcase children whose name matches
ToRemove(suite) ==
    SelectSeq(suite.kids, LAMBDA c : c.tag = "testcase"
                                     /\ NameMatches(c.name, FILTER_NAME_SUBSTRINGS))
\* the children left once each of them is removed
Remaining(suite) ==
    SelectSeq(suite.kids, LAMBDA c : ~(c.tag = "testcase"
                                       /\ NameMatches(c.name, FILTER_NAME_SUBSTRINGS)))
Names(cs) == [i \in 1..Len(cs) |-> cs[i].name]

Line(kind, n, name) == [kind |-> kind, n |-> n, name |-> name]

InitFilter ==
    /\ data = Null /\ path = <<>> /\ ret = NotCalled /\ calls = <<>>
    /\ source = Null /\ default_value = "" /\ errText = <<>> /\ handleOpen = FALSE
    /\ exc = "none" /\ result = NotCalled /\ exitCode = -1
    /\ stream = <<>> /\ idx = 0
    /\ pc = "parse"
    /\ \/ input \in {[kind |-> k, root |-> <<>>] : k \in {"missing", "unparsable"}}
       \/ \E s \in Suites \cup {Stray}, t \in SmallSuites \cup {Stray}, n \in 0..3 :
             input = [kind |-> "ok", root |-> Shape(s, t, n)]
    /\ root = <<>> /\ si = 0
    /\ filtered_testcases_count = 0 /\ removed_testcase_names = <<>>
    /\ output = NotWritten
    /\ stdout = <<>> /\ stderr = <<>>

filterFrame == <<fnVars, callVars, cliVars, convVars, stderr, input>>

\* tree = ET.parse(input_path); root = tree.getroot()
ParseInput ==
    /\ pc = "parse"
    /\ \/ /\ input.kind = "missing"
          /\ stdout' = Append(stdout, Line("Error: File not found", 0, <<>>))
          /\ pc' = "returned" /\ UNCHANGED root
       \/ /\ input.kind = "unparsable"
          /\ stdout' = Append(stdout, Line("XML Parse Error", 0, <<>>))
          /\ pc' = "returned" /\ UNCHANGED root
       \/ /\ input.kind = "ok"
          /\ root' = input.root /\ pc' = "suites" /\ UNCHANGED stdout
    /\ UNCHANGED <<si, filtered_testcases_count, removed_testcase_names, output, filterFrame>>

\* one iteration of `for testsuite in root.findall('testsuite')`
FilterSuite ==
    /\ pc = "suites" /\ si < Cardinality(SuitePositions(root))
    /\ LET i     == NthSuite(root, si + 1)
           suite == root[i]
           gone  == ToRemove(suite)
       IN  /\ removed_testcase_names' = removed_testcase_names \o Names(gone)
           /\ filtered_testcases_count' = filtered_testcases_count + Len(gone)
           /\ \/ /\ suite.tests.kind = "text"       \* int() raises ValueError
                 /\ root' = [root EXCEPT ![i].kids = Remaining(suite)]
                 /\ stdout' = Append(stdout, Line("Unexpected error", 0, <<>>))
                 /\ pc' = "returned"
              \/ /\ suite.tests.kind # "text"
                 /\ root' = [root EXCEPT ![i].kids = Remaining(suite),
                                         ![i].tests = Num(TestsOf(suite) - Len(gone))]
                 /\ UNCHANGED <<stdout, pc>>
    /\ si' = si + 1
    /\ UNCHANGED <<output, filterFrame>>

\* tree.write(output_path, ...) and the report that is printed
WriteOutput ==
    /\ pc = "suites" /\ si = Cardinality(SuitePositions(root))
    /\ output' = [written |-> TRUE, root |-> root]
    /\ stdout' = stdout
                 \o <<Line("Removed test case(s) by name match", filtered_testcases_count, <<>>)>>
                 \o [k \in 1..Len(removed_testcase_names) |->
                       Line("  - ", 0, removed_testcase_names[k])]
                 \o <<Line("Output saved to", 0, <<>>)>>
    /\ pc' = "returned"
    /\ UNCHANGED <<root, si, filtered_testcases_count, removed_testcase_names, filterFrame>>

NextFilter == ParseInput \/ FilterSuite \/ WriteOutput

SpecFilter == InitFilter /\ [][NextFilter]_vars

\* the testcases of a suite that the filter is to remove, and their number
Doomed(suite) ==
    {j \in 1..Len(suite.kids) :
        /\ suite.kids[j].tag = "testcase"
        /\ \E k \in 1..Len(FILTER_NAME_SUBSTRINGS) :
              \E a \in 1..Len(suite.kids[j].name), b \in 1..Len(suite.kids[j].name) :
                  SubSeq(suite.kids[j].name, a, b) = FILTER_NAME_SUBSTRINGS[k]}
RECURSIVE Without(_, _, _)
Without(ks, J, j) ==
    IF j > Len(ks) THEN <<>>
    ELSE (IF j \in J THEN <<>> ELSE <<ks[j]>>) \o Without(ks, J, j + 1)
RECURSIVE SumDoomed(_, _)
SumDoomed(r, i) ==
    IF i > Len(r) THEN 0
    ELSE (IF r[i].tag = "testsuite" THEN Cardinality(Doomed(r[i])) ELSE 0)
         + SumDoomed(r, i + 1)
ReportedCount ==
    (CHOOSE l \in {stdout[k] : k \in 1..Len(stdout)} :
        l.kind = "Removed test case(s) by name match").n

\* C10: after a successful run every testsuite directly under the root keeps
\* exactly its children other than the testcases whose name holds a filter
\* substring, in their order; its 'tests' is the value before (0 when absent)
\* less the number removed from it; the reported count is the total removed;
\* and nothing is written when the input is missing or does not parse.
C10_Filtered ==
    /\ input.kind # "ok" => output = NotWritten
    /\ output.written =>
        /\ Len(output.root) = Len(input.root)
        /\ \A i \in 1..Len(input.root) :
              LET before == input.root[i]
                  after  == output.root[i]
              IN  IF before.tag = "testsuite"
                  THEN /\ Doomed(after) = {}
                       /\ after.kids = Without(before.kids, Doomed(before), 1)
                       /\ after.tests = Num(before.tests.n - Cardinality(Doomed(before)))
                  ELSE after = before
        /\ ReportedCount = SumDoomed(input.root, 1)
        /\ Len(removed_testcase_names) = ReportedCount

\* C10 witness: a testsuite without 'tests' that loses the middle one of three
\* testcases, then a testsuite with tests="5" that loses its only one
C10_Witness ==
    /\ output.written /\ Len(input.root) = 2 /\ ReportedCount = 2
    /\ \A i \in 1..2 : input.root[i].tag = "testsuite"
    /\ Len(input.root[1].kids) = 3 /\ Doomed(input.root[1]) = {2}
    /\ input.root[1].kids[1] # input.root[1].kids[3]
    /\ output.root[1].kids = <<input.root[1].kids[1], input.root[1].kids[3]>>
    /\ input.root[1].tests = Absent /\ output.root[1].tests = Num(-1)
    /\ Len(input.root[2].kids) = 1 /\ output.root[2].kids = <<>>
    /\ output.root[2].tests = Num(4)

====
